---- MODULE Spec2Model ----
(***************************************************************************)
(* Model of the cads-fmi-demo workflow runtime:                            *)
(*   - workflow.Executor.Run  (orchestrator/service/workflow/workflow.go)  *)
(*   - fmi.Run                (the cgo binding of package fmi)             *)
(*   - cads_run_fmu / runConfiguredFmu / runFmi2 / runFmi3                 *)
(*                            (internal/fmi/runner_bridge.cpp)             *)
(*   - service.Server.ServeHTTP and service.Runner.Run                     *)
(*                                                                         *)
(* Strings that the code takes apart (step names, variable names,          *)
(* start_from references) are sequences of one-character strings, so that  *)
(* strings.Cut and sort.Strings are computed as the code computes them.    *)
(* Scalars are decimal numbers [n, s] denoting n * 10^-s with s in {0, 3}; *)
(* simulation times are integers counting thousandths.                     *)
(***************************************************************************)
EXTENDS Integers, Sequences, FiniteSets, TLC

(* ------------------------------------------------------------------ *)
(* Strings                                                            *)
(* ------------------------------------------------------------------ *)

\* The characters used by the modelled documents, in byte order.
Alphabet == <<".", "A", "B", "C", "b", "k", "n", "o", "p", "s", "x", "y", "z">>

CharOrd(c) == CHOOSE i \in 1..Len(Alphabet) : Alphabet[i] = c

\* Byte-wise lexicographic order, as sort.Strings and std::map use it.
RECURSIVE StrLess(_, _)
StrLess(a, b) ==
    IF Len(b) = 0 THEN FALSE
    ELSE IF Len(a) = 0 THEN TRUE
    ELSE IF a[1] # b[1] THEN CharOrd(a[1]) < CharOrd(b[1])
    ELSE StrLess(Tail(a), Tail(b))

\* The elements of a finite set of strings as an increasing sequence.
RECURSIVE SortedKeys(_)
SortedKeys(S) ==
    IF S = {} THEN <<>>
    ELSE LET m == CHOOSE x \in S : \A y \in S \ {x} : StrLess(x, y)
         IN  <<m>> \o SortedKeys(S \ {m})

\* strings.Cut(s, "."): split around the first dot.
DotIndex(s) ==
    IF \E i \in 1..Len(s) : s[i] = "."
    THEN CHOOSE i \in 1..Len(s) : s[i] = "." /\ \A j \in 1..(i - 1) : s[j] # "."
    ELSE 0

Cut(s) ==
    LET i == DotIndex(s)
    IN  IF i = 0
        THEN [before |-> s, after |-> <<>>, found |-> FALSE]
        ELSE [before |-> SubSeq(s, 1, i - 1),
              after  |-> SubSeq(s, i + 1, Len(s)),
              found  |-> TRUE]

(* ------------------------------------------------------------------ *)
(* Numbers and the value codec                                        *)
(* ------------------------------------------------------------------ *)

\* A decimal number n * 10^-s, kept canonical: s = 0 whenever it is integral.
Norm(n, s) ==
    IF s = 3 /\ n % 1000 = 0 THEN [n |-> n \div 1000, s |-> 0]
    ELSE [n |-> n, s |-> s]

IntNum(i) == [n |-> i, s |-> 0]
Milli(m)  == Norm(m, 3)
Zero      == IntNum(0)

Abs(i) == IF i < 0 THEN -i ELSE i

RECURSIVE Digits(_)
Digits(m) == IF m < 10 THEN 1 ELSE 1 + Digits(m \div 10)

RECURSIVE Pow10(_)
Pow10(k) == IF k = 0 THEN 1 ELSE 10 * Pow10(k - 1)

\* A non-negative integer rounded to p significant digits, ties to even
\* (the correctly rounded result printf and strconv produce for a value
\* that is exactly representable).
RoundDigits(m, p) ==
    IF Digits(m) <= p THEN m
    ELSE LET u == Pow10(Digits(m) - p)
             q == m \div u
             r == m % u
             up == 2 * r > u \/ (2 * r = u /\ q % 2 = 1)
         IN  (IF up THEN q + 1 ELSE q) * u

\* printf-style %.<p>g of a finite number, read back as the number it denotes.
RoundSig(x, p) ==
    LET m == RoundDigits(Abs(x.n), p)
    IN  Norm(IF x.n < 0 THEN -m ELSE m, x.s)

\* Text handed across the C boundary: either a finite decimal numeral or
\* something strtod does not accept in full.
\* A text, by what strtod makes of it: "num" is entirely one finite number,
\* "trailing" a number followed by other characters ("1.5abc"), "nonfinite"
\* a spelling of NaN or an infinity, "empty" the empty text, "nonnumeric" a
\* text that does not start with a number ("abc").
NumText(x) == [form |-> "num", num |-> x]
BadText(f) == [form |-> f, num |-> Zero]
TrailingText(x) == [form |-> "trailing", num |-> x]

\* Go values held in map[string]any.
GoInt(i)    == [t |-> "int", num |-> IntNum(i), b |-> FALSE, txt |-> BadText("empty")]
GoFloat(x)  == [t |-> "float64", num |-> x, b |-> FALSE, txt |-> BadText("empty")]
GoBool(v)   == [t |-> "bool", num |-> Zero, b |-> v, txt |-> BadText("empty")]
GoString(s) == [t |-> "string", num |-> Zero, b |-> FALSE, txt |-> s]
GoNil       == [t |-> "nil", num |-> Zero, b |-> FALSE, txt |-> BadText("empty")]
GoList      == [t |-> "list", num |-> Zero, b |-> FALSE, txt |-> BadText("empty")]

\* fmt verb %.9g in formatFloat.
FloatPrecision == 9

\* Default precision of std::ostringstream, used by operator<<(double).
StreamPrecision == 6

\* workflow.formatFloat
formatFloat(v) == NumText(RoundSig(v, FloatPrecision))

\* workflow.encodeScalar: [ok, txt]
encodeScalar(value) ==
    CASE value.t = "nil"     -> [ok |-> FALSE, txt |-> BadText("empty")]
      [] value.t = "bool"    -> [ok |-> TRUE,
                                 txt |-> NumText(IntNum(IF value.b THEN 1 ELSE 0))]
      [] value.t = "int"     -> [ok |-> TRUE, txt |-> NumText(value.num)]
      [] value.t = "float64" -> [ok |-> TRUE, txt |-> formatFloat(value.num)]
      [] value.t = "string"  -> [ok |-> TRUE, txt |-> value.txt]
      [] OTHER               -> [ok |-> FALSE, txt |-> BadText("empty")]

\* std::strtod on a text: the value converted, whether it is finite, and
\* whether *end is a character of the text rather than its terminator. A
\* text that does not start with a number (the empty text too) is converted
\* to 0 with end left at the start of the text.
strtod(input) ==
    CASE input.form = "num"       -> [val |-> input.num, finite |-> TRUE, rest |-> FALSE]
      [] input.form = "trailing"  -> [val |-> input.num, finite |-> TRUE, rest |-> TRUE]
      [] input.form = "nonfinite" -> [val |-> Zero, finite |-> FALSE, rest |-> FALSE]
      [] input.form = "empty"     -> [val |-> Zero, finite |-> TRUE, rest |-> FALSE]
      [] OTHER                    -> [val |-> Zero, finite |-> TRUE, rest |-> TRUE]

\* parseNumber: fails when *end != '\0' or the value is not finite.
parseNumber(input) ==
    LET converted == strtod(input)
    IN  [ok |-> ~converted.rest /\ converted.finite, val |-> converted.val]

\* std::llround: nearest integer, ties away from zero.
LLRound(x) ==
    IF x.s = 0 THEN x.n
    ELSE LET q == Abs(x.n) \div 1000
             r == Abs(x.n) % 1000
             m == IF r >= 500 THEN q + 1 ELSE q
         IN  IF x.n < 0 THEN -m ELSE m

\* OutputValue of runner_bridge.cpp, value-initialised as OutputValue ov{}.
RealOutput(v) == [type |-> "Real", realVal |-> v, intVal |-> 0, boolVal |-> FALSE]
IntOutput(i)  == [type |-> "Integer", realVal |-> Zero, intVal |-> i, boolVal |-> FALSE]
BoolOutput(b) == [type |-> "Boolean", realVal |-> Zero, intVal |-> 0, boolVal |-> b]

\* One member of the JSON object serializeJson writes.
JsonNumber(x) == [j |-> "number", num |-> x, b |-> FALSE]
JsonBool(v)   == [j |-> "bool", num |-> Zero, b |-> v]

serializeValue(value) ==
    CASE value.type = "Real"    -> JsonNumber(RoundSig(value.realVal, StreamPrecision))
      [] value.type = "Integer" -> JsonNumber(IntNum(value.intVal))
      [] value.type = "Boolean" -> JsonBool(value.boolVal)

\* serializeJson: the object, member by member (std::map keeps the names unique).
serializeJson(values) == [name \in DOMAIN values |-> serializeValue(values[name])]

\* json.Unmarshal into map[string]any: every number becomes a float64.
decodeValue(jv) == IF jv.j = "bool" THEN GoBool(jv.b) ELSE GoFloat(jv.num)

decodeJson(json) == [name \in DOMAIN json |-> decodeValue(json[name])]

(* ------------------------------------------------------------------ *)
(* The FMUs on disk                                                   *)
(* ------------------------------------------------------------------ *)

\* What FMI Library reports about a variable of the model description.
\* An output mirrors the input named by `from` (the FMUs are pass-through
\* models: y = x, n = k, o = b), so that values only enter through start
\* values.
Var(base, causality, from) == [base |-> base, causality |-> causality, from |-> from]

NoTime == [has |-> FALSE, v |-> 0]
Time(t) == [has |-> TRUE, v |-> t]

PassThroughVars ==
    (<<"x">> :> Var("real", "input", <<>>)) @@
    (<<"y">> :> Var("real", "output", <<"x">>)) @@
    (<<"k">> :> Var("int", "input", <<>>)) @@
    (<<"n">> :> Var("int", "output", <<"k">>)) @@
    (<<"n", ".", "k">> :> Var("int", "output", <<"k">>)) @@
    (<<"b">> :> Var("bool", "input", <<>>)) @@
    (<<"o">> :> Var("bool", "calculatedParameter", <<"b">>)) @@
    (<<"s">> :> Var("string", "parameter", <<>>))

\* Model description of each FMU file: FMI version as detected from the
\* archive, kind, variables in declaration order, default experiment.
NamedFmus ==
    ("id2.fmu" :> [version |-> "2.0", kind |-> "cs",
                   order |-> << <<"x">>, <<"y">>, <<"k">>, <<"n">>, <<"n", ".", "k">>,
                               <<"b">>, <<"o">>, <<"s">> >>,
                   vars |-> PassThroughVars,
                   start |-> Time(0), stop |-> Time(1000), step |-> NoTime]) @@
    ("id3.fmu" :> [version |-> "3.0", kind |-> "cs",
                   order |-> << <<"x">>, <<"y">>, <<"k">>, <<"n">>, <<"n", ".", "k">>,
                               <<"b">>, <<"o">>, <<"s">> >>,
                   vars |-> PassThroughVars,
                   start |-> NoTime, stop |-> Time(2000), step |-> Time(1000)]) @@
    ("bare.fmu" :> [version |-> "2.0", kind |-> "cs",
                    order |-> << <<"p">> >>,
                    vars |-> (<<"p">> :> Var("real", "parameter", <<>>)),
                    start |-> NoTime, stop |-> NoTime, step |-> NoTime]) @@
    ("me.fmu" :> [version |-> "2.0", kind |-> "me",
                  order |-> << <<"p">> >>,
                  vars |-> (<<"p">> :> Var("real", "parameter", <<>>)),
                  start |-> NoTime, stop |-> NoTime, step |-> NoTime]) @@
    ("v1.fmu" :> [version |-> "1.0", kind |-> "cs",
                  order |-> << <<"p">> >>,
                  vars |-> (<<"p">> :> Var("real", "parameter", <<>>)),
                  start |-> NoTime, stop |-> NoTime, step |-> NoTime])

\* FMUs that differ in their default experiment only: each of start, stop
\* and step size is absent ("-") or present ("+"), or present and zero ("0").
Experiments ==
    [version : {"2.0", "3.0"}, start : {"-", "+"}, stop : {"-", "+"},
     step : {"-", "+", "0"}]

ExperimentPath(e) == e.version \o e.start \o e.stop \o e.step \o ".fmu"

ExperimentFmus ==
    [path \in {ExperimentPath(e) : e \in Experiments} |->
        LET e == CHOOSE x \in Experiments : ExperimentPath(x) = path
        IN  [version |-> e.version, kind |-> "cs",
             order |-> << <<"x">>, <<"y">> >>,
             vars |-> (<<"x">> :> Var("real", "input", <<>>)) @@
                      (<<"y">> :> Var("real", "output", <<"x">>)),
             start |-> IF e.start = "+" THEN Time(1000) ELSE NoTime,
             stop  |-> IF e.stop = "+" THEN Time(3000) ELSE NoTime,
             step  |-> CASE e.step = "+" -> Time(2000)
                         [] e.step = "0" -> Time(0)
                         [] OTHER -> NoTime]]

Fmus == NamedFmus @@ ExperimentFmus

\* os.Stat / fs::exists on an FMU path.
FileExists(path) == path \in DOMAIN Fmus

(* ------------------------------------------------------------------ *)
(* Workflow documents                                                 *)
(* ------------------------------------------------------------------ *)

EmptyMap == <<>>

\* workflowStep as yaml.Unmarshal fills it.
Step(name, fmu, outputs, values, from, result) ==
    [name |-> name, fmu |-> fmu, outputs |-> outputs,
     start_time |-> NoTime, stop_time |-> NoTime, step_size |-> NoTime,
     result |-> result, start_values |-> values, start_from |-> from]

Ref(step, variable) == step \o <<".">> \o variable

A == <<"A">>
B == <<"B">>

\* The steps modelled documents are made of: well-formed producers and
\* consumers, and one step per way of being defective.
StepPool ==
    { Step(A, "id2.fmu", << <<"n">> >>, (<<"k">> :> GoInt(1234567891)), EmptyMap, "a.json"),
      Step(A, "id2.fmu", << <<"n">>, <<"y">> >>,
           (<<"k">> :> GoInt(7)) @@ (<<"x">> :> GoFloat(Milli(1500))), EmptyMap, ""),
      Step(A, "id2.fmu", << <<"n">> >>, EmptyMap, (<<"k">> :> Ref(B, <<"n">>)), ""),
      Step(B, "id2.fmu", << <<"n">> >>, EmptyMap, (<<"k">> :> Ref(A, <<"n">>)), "b.json"),
      Step(B, "id3.fmu", <<>>, EmptyMap, (<<"x">> :> Ref(A, <<"n">>)), ""),
      Step(B, "id2.fmu", << <<"n">> >>, EmptyMap, (<<"k">> :> Ref(A, <<"z">>)), "b.json"),
      Step(B, "id2.fmu", << <<"n">> >>, EmptyMap, (<<"k">> :> Ref(B, <<"n">>)), "b.json"),
      Step(B, "id2.fmu", << <<"n">> >>, EmptyMap,
           (<<"k">> :> Ref(<<"C">>, <<"n">>)) @@ (<<"x">> :> <<"A", "n">>), "b.json"),
      Step(B, "id2.fmu", << <<"n">>, <<"y">> >>,
           (<<"k">> :> GoInt(5)) @@ (<<"b">> :> GoBool(TRUE)),
           (<<"k">> :> Ref(A, <<"n">>)) @@ (<<"x">> :> Ref(A, <<"n">>)), "b.json"),
      Step(A, "id2.fmu", << <<"n", ".", "k">> >>, (<<"k">> :> GoInt(7)), EmptyMap, ""),
      Step(B, "id2.fmu", << <<"n">> >>, EmptyMap,
           (<<"k">> :> Ref(A, <<"n", ".", "k">>)), ""),
      Step(<<>>, "id2.fmu", << <<"n">> >>, EmptyMap, EmptyMap, "b.json"),
      Step(B, "", << <<"n">> >>, EmptyMap, EmptyMap, "b.json"),
      Step(B, "missing.fmu", << <<"n">> >>, EmptyMap, EmptyMap, "b.json"),
      [Step(B, "id2.fmu", << <<"n">> >>, EmptyMap, EmptyMap, "b.json")
          EXCEPT !.start_time = Time(2000), !.stop_time = Time(1000)],
      Step(B, "bare.fmu", <<>>, EmptyMap, EmptyMap, "b.json"),
      Step(B, "id2.fmu", << <<"n">> >>, (<<"z">> :> GoInt(1)), EmptyMap, "b.json"),
      Step(B, "me.fmu", <<>>, EmptyMap, EmptyMap, ""),
      Step(B, "v1.fmu", <<>>, EmptyMap, EmptyMap, "") }

\* Longest modelled document.
MaxSteps == 2

Docs == UNION { [1..len -> StepPool] : len \in 0..MaxSteps }

(* ------------------------------------------------------------------ *)
(* State                                                              *)
(* ------------------------------------------------------------------ *)

VARIABLES
    doc,        \* the parsed workflowFile.Steps
    docStatus,  \* whether os.ReadFile and yaml.Unmarshal succeed on the workflow
    pc,         \* position of Executor.Run
    idx,        \* index of the step the loop of Run is at
    results,    \* Run's local result store
    startVals,  \* the start values built for the current step
    ret,        \* what Run returned
    files,      \* snapshot files on disk: path -> content
    log,        \* history: what Run has done so far, in order
    drv,        \* locals of the running cads_run_fmu invocation
    tempDirs,   \* scratch directories that exist
    made,       \* history: how many scratch directories were ever created
    captured,   \* history: the typed outputs the driver read, per recorded step
    faults,     \* which library and system calls fail in this run
    http,       \* the request ServeHTTP is serving and its response
    prior,      \* history: what an earlier Run on the same inputs returned and left
    other       \* the locals of a second Executor.Run, in a goroutine that is
                \* not scheduled at the moment

vars == <<doc, docStatus, pc, idx, results, startVals, ret, files, log, drv, tempDirs,
          made, captured, faults, http, prior, other>>

\* What no step of Run or of the driver changes.
envVars == <<doc, docStatus, faults, http, prior, other>>

\* The calls that can fail whatever their arguments are: any of them, at any
\* time (AnyFault), or exactly the named ones, each time they are made.
AnyFault == [any |-> TRUE, calls |-> {}]
Faults(calls) == [any |-> FALSE, calls |-> calls]

\* Whether a call succeeds.
Outcomes(call) == IF faults.any THEN BOOLEAN ELSE {call \notin faults.calls}

\* Whether the FMU raises a flag it is free to raise.
Flags(flag) == IF faults.any THEN BOOLEAN ELSE {flag \in faults.calls}

execVars == <<pc, idx, results, startVals, ret, files, log>>

\* An error of Run: what failed, the step name its message carries, and the
\* message of the wrapped error.
NoErr == [kind |-> "nil", step |-> <<>>, detail |-> "", target |-> <<>>]
\* An error whose message leaves the step out.
ErrWithoutStep(kind, step, detail) ==
    [kind |-> kind, step |-> <<>>, detail |-> detail, target |-> <<>>]

Err(kind, step, detail) == [kind |-> kind, step |-> step, detail |-> detail, target |-> <<>>]

NotReturned == [done |-> FALSE, isNil |-> TRUE, store |-> EmptyMap, err |-> NoErr]
\* return nil, err
ReturnErr(e) == [done |-> TRUE, isNil |-> TRUE, store |-> EmptyMap, err |-> e]
\* return results, nil
ReturnStore(r) == [done |-> TRUE, isNil |-> FALSE, store |-> r, err |-> NoErr]

Event(ev, k) == [ev |-> ev, k |-> k]

(* ------------------------------------------------------------------ *)
(* The native driver: cads_run_fmu                                    *)
(* ------------------------------------------------------------------ *)

\* The C++ Config built by fromCConfig from the cads_fmu_config of fmi.Run.
Config(path, startTime, stopTime, stepSize, startValues, outputs) ==
    [fmuPath |-> path, startTime |-> startTime, stopTime |-> stopTime,
     stepSize |-> stepSize, startValues |-> startValues, outputs |-> outputs]

NoConfig == Config("", NoTime, NoTime, NoTime, <<>>, <<>>)

\* Locals of one cads_run_fmu invocation, and what it holds of the library:
\*   ctx       the fmi_import_context_t of ScopedCtx
\*   unpackDir the directory of ScopedTempDir (0: none)
\*   fmu       the fmi2_import_t / fmi3_import_t of ScopedFmu2 / ScopedFmu3
\*   dll       whether the FMU binaries are loaded
\*   instance  the FMU instance: none, live, terminated, freed
\*   mode      the instance's mode as the calls made so far leave it
\*   vals      the instance's variable values
\*   calls     history: the library calls made, in order
\*   steps     history: the arguments of the do_step calls made, their
\*             status and the terminate flag they raised
\*   reads     history: the getter calls made, with their status and the
\*             number of do_step calls and whether terminate was called
\*             before them
NewDriver(cfg) ==
    [dpc |-> "entry", cfg |-> cfg, ctx |-> "none", unpackDir |-> 0, dirsMade |-> 0,
     version |-> "", fmu |-> "null", dll |-> FALSE, instance |-> "none",
     mode |-> "none", vals |-> EmptyMap,
     timings |-> [start |-> 0, stop |-> 0, step |-> 0], current |-> 0,
     next |-> 1, outputs |-> <<>>, values |-> EmptyMap, sets |-> <<>>,
     calls |-> <<>>, steps |-> <<>>, reads |-> <<>>,
     code |-> 0, json |-> EmptyMap, err |-> ""]

IdleDriver == [NewDriver(NoConfig) EXCEPT !.dpc = "idle"]

Call(d, name) == [d EXCEPT !.calls = Append(@, name)]

\* A scratch directory that is left behind when its scope is exited.
LeakedTempDir(dirs, path) == dirs

\* ~ScopedTempDir: fs::remove_all(path, ec) when a path is held.
ScopedTempDirDtor(dirs, path) == dirs \ {path}

\* ~ScopedFmu2 / ~ScopedFmu3: fmi2_import_free / fmi3_import_free release the
\* parsed model description and unload the binaries; they call neither
\* terminate nor free_instance on the instance.
ScopedFmuDtor(d) ==
    IF d.fmu = "parsed"
    THEN [Call(d, "import_free") EXCEPT !.fmu = "freed", !.dll = FALSE]
    ELSE d

\* ~ScopedCtx: fmi_import_free_context when a context is held.
ScopedCtxDtor(d) ==
    IF d.ctx = "allocated"
    THEN [Call(d, "free_context") EXCEPT !.ctx = "freed"]
    ELSE d

\* The scopes of runFmi2/runFmi3 and runConfiguredFmu are left, innermost
\* first: the import object, the scratch directory, the context.
LeaveScopes(d) ==
    LET a == ScopedFmuDtor(d)
        b == IF a.unpackDir # 0 THEN Call(a, "remove_all") ELSE a
    IN  ScopedCtxDtor(b)

\* fail(msg) thrown at d: the stack unwinds and the catch of cads_run_fmu
\* copies the message to err_out and returns 1.
Thrown(d, msg) == [LeaveScopes(d) EXCEPT !.dpc = "exit", !.code = 1, !.err = msg]

Throw(d, msg) ==
    /\ drv' = Thrown(d, msg)
    /\ tempDirs' = IF d.unpackDir # 0 THEN ScopedTempDirDtor(tempDirs, d.unpackDir)
                   ELSE tempDirs

AtDriver(p) == pc = "driver" /\ drv.dpc = p

\* cads_run_fmu up to the context: fromCConfig, preloadLibPythonIfAvailable,
\* fs::exists, fmi_import_allocate_context.
RunConfiguredFmu ==
    /\ AtDriver("entry")
    /\ UNCHANGED <<envVars, captured, execVars, made>>
    /\ IF ~FileExists(drv.cfg.fmuPath)
       THEN Throw(drv, "FMU not found")
       ELSE \E ok \in Outcomes("allocate_context") :
              IF ok
              THEN /\ drv' = [Call(drv, "allocate_context") EXCEPT
                                 !.ctx = "allocated", !.dpc = "mktemp"]
                   /\ UNCHANGED tempDirs
              ELSE Throw(Call(drv, "allocate_context"), "Failed to create FMIL context")

\* makeTempDir: mkdtemp creates a directory with a fresh name, or fails.
MakeTempDir ==
    /\ AtDriver("mktemp")
    /\ UNCHANGED <<envVars, captured, execVars>>
    /\ \E ok \in Outcomes("mkdtemp") :
         IF ok
         THEN /\ made' = made + 1
              /\ tempDirs' = tempDirs \cup {made + 1}
              /\ drv' = [drv EXCEPT !.unpackDir = made + 1, !.dirsMade = @ + 1,
                                    !.dpc = "version"]
         ELSE /\ made' = made
              /\ Throw(drv, "Failed to create temporary directory")

\* fmi_import_get_fmi_version unpacks the archive into the scratch directory
\* and reports the version of the model description, or unknown.
DetectVersion ==
    /\ AtDriver("version")
    /\ UNCHANGED <<envVars, captured, execVars, made>>
    /\ \E ok \in Outcomes("get_fmi_version") :
         LET v == IF ok THEN Fmus[drv.cfg.fmuPath].version ELSE "unknown"
             d == [Call(drv, "get_fmi_version") EXCEPT !.version = v]
         IN  CASE v = "unknown" -> Throw(d, "Unable to detect FMI version")
               [] v \in {"2.0", "3.0"} ->
                     /\ drv' = [d EXCEPT !.dpc = "parse"]
                     /\ UNCHANGED tempDirs
               [] OTHER -> Throw(d, "Unsupported FMI version")


\* 1.0 and 1e-3 in thousandths: the fallbacks of deriveTimingsFmi2/Fmi3.
One == 1000
MinStep == 1

Max(a, b) == IF a > b THEN a ELSE b
Min(a, b) == IF a < b THEN a ELSE b

\* deriveTimingsFmi3 with a stop time that falls back to 1.0 instead of
\* start + 1.0.
deriveTimingsStopAtOne(fmu, cfg) ==
    LET start == IF cfg.startTime.has THEN cfg.startTime.v
                 ELSE IF fmu.start.has THEN fmu.start.v
                 ELSE 0
        stop  == IF cfg.stopTime.has THEN cfg.stopTime.v
                 ELSE IF fmu.stop.has THEN fmu.stop.v
                 ELSE One
        step  == IF cfg.stepSize.has THEN cfg.stepSize.v
                 ELSE IF fmu.step.has THEN fmu.step.v
                 ELSE Max(MinStep, stop - start)
    IN  [start |-> start, stop |-> stop, step |-> step]

\* deriveTimingsFmi3
deriveTimingsFmi3(fmu, cfg) ==
    LET start == IF cfg.startTime.has THEN cfg.startTime.v
                 ELSE IF fmu.start.has THEN fmu.start.v
                 ELSE 0
        stop  == IF cfg.stopTime.has THEN cfg.stopTime.v
                 ELSE IF fmu.stop.has THEN fmu.stop.v
                 ELSE start + One
        step  == IF cfg.stepSize.has THEN cfg.stepSize.v
                 ELSE IF fmu.step.has THEN fmu.step.v
                 ELSE Max(MinStep, stop - start)
    IN  [start |-> start, stop |-> stop, step |-> step]

\* deriveTimingsFmi2
deriveTimingsFmi2(fmu, cfg) ==
    LET start == IF cfg.startTime.has THEN cfg.startTime.v
                 ELSE IF fmu.start.has THEN fmu.start.v
                 ELSE 0
        stop  == IF cfg.stopTime.has THEN cfg.stopTime.v
                 ELSE IF fmu.stop.has THEN fmu.stop.v
                 ELSE start + One
        step  == IF cfg.stepSize.has THEN cfg.stepSize.v
                 ELSE IF fmu.step.has THEN fmu.step.v
                 ELSE Max(MinStep, stop - start)
    IN  [start |-> start, stop |-> stop, step |-> step]

\* The timings runFmi2 / runFmi3 use: a step that is not positive is replaced.
ResolveTimings(fmu, cfg) ==
    LET t == IF fmu.version = "3.0" THEN deriveTimingsFmi3(fmu, cfg)
             ELSE deriveTimingsFmi2(fmu, cfg)
    IN  IF t.step <= 0
        THEN [t EXCEPT !.step = IF t.stop - t.start <= 0 THEN One
                                ELSE t.stop - t.start]
        ELSE t

\* fmi2_import_parse_xml / fmi3_import_parse_xml, then the kind check.
ParseXml ==
    /\ AtDriver("parse")
    /\ UNCHANGED <<envVars, captured, execVars, made>>
    /\ \E ok \in Outcomes("parse_xml") :
         LET d == Call(drv, "parse_xml")
             e == [Call(d, "get_fmu_kind") EXCEPT !.fmu = "parsed"]
         IN  IF ~ok THEN Throw(d, "Failed parsing XML")
             ELSE IF Fmus[drv.cfg.fmuPath].kind # "cs"
             THEN Throw(e, "FMU is not Co-Simulation")
             ELSE /\ drv' = [e EXCEPT !.dpc = "load"]
                  /\ UNCHANGED tempDirs

\* fmi2_import_create_dllfmu / fmi3_import_create_dllfmu
LoadBinaries ==
    /\ AtDriver("load")
    /\ UNCHANGED <<envVars, captured, execVars, made>>
    /\ \E ok \in Outcomes("create_dllfmu") :
         LET d == Call(drv, "create_dllfmu")
         IN  IF ok
             THEN /\ drv' = [d EXCEPT !.dll = TRUE, !.dpc = "instantiate"]
                  /\ UNCHANGED tempDirs
             ELSE Throw(d, "Failed loading FMU binaries")

\* fmi2_import_instantiate / fmi3_import_instantiate_co_simulation, then the
\* timings are resolved.
Instantiate ==
    /\ AtDriver("instantiate")
    /\ UNCHANGED <<envVars, captured, execVars, made>>
    /\ \E ok \in Outcomes("instantiate") :
         LET d == Call(drv, "instantiate")
             fmu == Fmus[drv.cfg.fmuPath]
         IN  IF ok
             THEN /\ drv' = [d EXCEPT !.instance = "live", !.mode = "instantiated",
                                      !.vals = [v \in DOMAIN fmu.vars |-> Zero],
                                      !.timings = ResolveTimings(fmu, drv.cfg),
                                      !.dpc = IF d.version = "2.0" THEN "setup"
                                              ELSE "enterInit"]
                  /\ UNCHANGED tempDirs
             ELSE Throw(d, "Failed to instantiate FMU")

\* fmi2_import_setup_experiment (FMI 2 only)
SetupExperiment ==
    /\ AtDriver("setup")
    /\ UNCHANGED <<envVars, captured, execVars, made>>
    /\ \E ok \in Outcomes("setup_experiment") :
         LET d == Call(drv, "setup_experiment")
         IN  IF ok
             THEN /\ drv' = [d EXCEPT !.dpc = "enterInit"]
                  /\ UNCHANGED tempDirs
             ELSE Throw(d, "fmi2_setup_experiment failed")

\* A driver that goes on to the start values without entering
\* initialization mode.
SkipInitializationMode ==
    /\ AtDriver("enterInit")
    /\ UNCHANGED <<envVars, captured, execVars, made, tempDirs>>
    /\ drv' = [drv EXCEPT !.next = 1, !.dpc = "apply"]

\* fmi2_import_enter_initialization_mode / fmi3_import_enter_initialization_mode
EnterInitializationMode ==
    /\ AtDriver("enterInit")
    /\ UNCHANGED <<envVars, captured, execVars, made>>
    /\ \E ok \in Outcomes("enter_initialization_mode") :
         LET d == Call(drv, "enter_initialization_mode")
         IN  IF ok
             THEN /\ drv' = [d EXCEPT !.mode = "initialization", !.next = 1,
                                      !.dpc = "apply"]
                  /\ UNCHANGED tempDirs
             ELSE Throw(d, "Failed entering initialization mode")

\* The typed setter chosen for a base type, and the value it is given:
\* static_cast<fmi2_real_t>(val), llround(val) narrowed to fmi2_integer_t (the
\* modelled values stay within its range), val != 0.0.
SetterValue(base, val) ==
    CASE base = "real" -> val
      [] base = "int"  -> IntNum(LLRound(val))
      [] base = "bool" -> IntNum(IF val.n # 0 THEN 1 ELSE 0)

\* applyStartValueFmi2 / applyStartValueFmi3 for the next entry of
\* cfg.startValues.
ApplyStartValue ==
    /\ AtDriver("apply")
    /\ drv.next <= Len(drv.cfg.startValues)
    /\ UNCHANGED <<envVars, captured, execVars, made>>
    /\ LET assign == drv.cfg.startValues[drv.next]
           fmu    == Fmus[drv.cfg.fmuPath]
           parsed == parseNumber(assign.value)
       IN  IF assign.name \notin DOMAIN fmu.vars
           THEN Throw(drv, "Unknown variable")
           ELSE IF ~parsed.ok
           THEN Throw(drv, "Unable to parse numeric value")
           ELSE IF fmu.vars[assign.name].base \notin {"real", "int", "bool"}
           THEN Throw(drv, "Unsupported base type")
           ELSE \E ok \in Outcomes("set_" \o fmu.vars[assign.name].base) :
                  LET base == fmu.vars[assign.name].base
                      v    == SetterValue(base, parsed.val)
                      d    == [Call(drv, "set_" \o base) EXCEPT
                                  !.sets = Append(@, [name |-> assign.name,
                                                      base |-> base, val |-> v,
                                                      ok |-> ok])]
                  IN  IF ok
                      THEN /\ drv' = [d EXCEPT !.vals[assign.name] = v,
                                               !.next = @ + 1]
                           /\ UNCHANGED tempDirs
                      ELSE Throw(d, "Failed setting " \o base)

\* fmi2_import_exit_initialization_mode / fmi3_import_exit_initialization_mode
\* once every start value is applied; then current = timings.start.
ExitInitializationMode ==
    /\ AtDriver("apply")
    /\ drv.next > Len(drv.cfg.startValues)
    /\ UNCHANGED <<envVars, captured, execVars, made>>
    /\ \E ok \in Outcomes("exit_initialization_mode") :
         LET d == Call(drv, "exit_initialization_mode")
         IN  IF ok
             THEN /\ drv' = [d EXCEPT !.mode = "step", !.current = d.timings.start,
                                      !.dpc = "loop"]
                  /\ UNCHANGED tempDirs
             ELSE Throw(d, "Failed exiting initialization mode")

\* while (current < timings.stop - 1e-12): times are whole thousandths.
LoopCondition(d) == d.current < d.timings.stop

\* A step loop without `if (terminate == fmi3_true) break;`.
DoStepIgnoringTerminate ==
    /\ AtDriver("loop")
    /\ LoopCondition(drv)
    /\ UNCHANGED <<envVars, captured, execVars, made>>
    /\ \E ok \in Outcomes("do_step"), terminate \in Flags("terminate") :
         LET step == Min(drv.timings.step, drv.timings.stop - drv.current)
             d    == [Call(drv, "do_step") EXCEPT
                         !.steps = Append(@, [at |-> drv.current, size |-> step,
                                              ok |-> ok, terminate |-> terminate])]
         IN  /\ terminate => drv.version = "3.0" /\ ok
             /\ IF ~ok THEN Throw(d, "do_step failed")
                ELSE /\ drv' = [d EXCEPT !.current = @ + step]
                     /\ UNCHANGED tempDirs

\* A step loop that does not look at the status of do_step.
DoStepIgnoringStatus ==
    /\ AtDriver("loop")
    /\ LoopCondition(drv)
    /\ UNCHANGED <<envVars, captured, execVars, made, tempDirs>>
    /\ \E ok \in Outcomes("do_step"), terminate \in Flags("terminate") :
         LET step == Min(drv.timings.step, drv.timings.stop - drv.current)
             d    == [Call(drv, "do_step") EXCEPT
                         !.steps = Append(@, [at |-> drv.current, size |-> step,
                                              ok |-> ok, terminate |-> terminate])]
         IN  /\ terminate => drv.version = "3.0" /\ ok
             /\ IF terminate
                THEN drv' = [d EXCEPT !.dpc = "select"]
                ELSE drv' = [d EXCEPT !.current = @ + step]

\* One iteration of the step loop: fmi2_import_do_step / fmi3_import_do_step
\* over min(timings.step, timings.stop - current); FMI 3 may raise terminate.
DoStep ==
    /\ AtDriver("loop")
    /\ LoopCondition(drv)
    /\ UNCHANGED <<envVars, captured, execVars, made>>
    /\ \E ok \in Outcomes("do_step"), terminate \in Flags("terminate") :
         LET step == Min(drv.timings.step, drv.timings.stop - drv.current)
             d    == [Call(drv, "do_step") EXCEPT
                         !.steps = Append(@, [at |-> drv.current, size |-> step,
                                              ok |-> ok, terminate |-> terminate])]
         IN  /\ terminate => drv.version = "3.0" /\ ok
             /\ IF ~ok THEN Throw(d, "do_step failed")
                ELSE IF terminate
                THEN /\ drv' = [d EXCEPT !.dpc = "select"]
                     /\ UNCHANGED tempDirs
                ELSE /\ drv' = [d EXCEPT !.current = @ + step]
                     /\ UNCHANGED tempDirs

\* autoOutputsFmi2 / autoOutputsFmi3
autoOutputs(fmu) ==
    LET names == SelectSeq(fmu.order,
                     LAMBDA v : fmu.vars[v].causality \in {"output", "calculatedParameter"})
    IN  IF names = <<>> THEN << <<"t", "i", "m", "e">> >> ELSE names

\* After the loop: cfg.outputs, or the automatic selection when it is empty.
SelectOutputs ==
    /\ pc = "driver"
    /\ \/ drv.dpc = "loop" /\ ~LoopCondition(drv)
       \/ drv.dpc = "select"
    /\ UNCHANGED <<envVars, captured, execVars, made, tempDirs>>
    /\ drv' = [drv EXCEPT !.outputs = IF drv.cfg.outputs = <<>>
                                      THEN autoOutputs(Fmus[drv.cfg.fmuPath])
                                      ELSE drv.cfg.outputs,
                          !.next = 1, !.dpc = "read"]

\* What the instance holds for a variable: an output mirrors its input.
InstanceValue(d, name) ==
    LET v == Fmus[d.cfg.fmuPath].vars[name]
    IN  IF v.from = <<>> THEN d.vals[name] ELSE d.vals[v.from]

\* readOutputFmi2 / readOutputFmi3 for the next requested name. The status
\* the getter returns is not looked at: the value is what the getter left in
\* the zero-initialised buffer, which a getter that fails may or may not
\* have written.
ReadOutput ==
    /\ AtDriver("read")
    /\ drv.next <= Len(drv.outputs)
    /\ UNCHANGED <<envVars, captured, execVars, made>>
    /\ LET name == drv.outputs[drv.next]
           fmu  == Fmus[drv.cfg.fmuPath]
       IN  IF name \notin DOMAIN fmu.vars
           THEN Throw(drv, "Output variable not found")
           ELSE IF fmu.vars[name].base \notin {"real", "int", "bool"}
           THEN Throw(drv, "Unsupported output type")
           ELSE \E ok \in Outcomes("get_" \o fmu.vars[name].base), written \in BOOLEAN :
                  LET base == fmu.vars[name].base
                      x    == IF written THEN InstanceValue(drv, name) ELSE Zero
                      ov   == CASE base = "real" -> RealOutput(x)
                                [] base = "int"  -> IntOutput(x.n)
                                [] base = "bool" -> BoolOutput(x.n # 0)
                  IN  /\ ok => written
                      /\ drv' = [Call(drv, "get_" \o base) EXCEPT
                                    !.reads = Append(@, [name |-> name, ok |-> ok,
                                                         steps |-> Len(drv.steps),
                                                         live |-> drv.instance = "live"]),
                                    !.values = (name :> ov) @@ @, !.next = @ + 1]
                      /\ UNCHANGED tempDirs

\* The tail of runFmi2 / runFmi3 and of runConfiguredFmu on the normal path:
\* terminate, free_instance, destroy_dllfmu, the scopes are left with the
\* result serialized in between, and cads_run_fmu returns 0 with the JSON.
Finish ==
    /\ AtDriver("read")
    /\ drv.next > Len(drv.outputs)
    /\ UNCHANGED <<envVars, captured, execVars, made>>
    /\ LET a == [Call(drv, "terminate") EXCEPT !.instance = "terminated",
                                               !.mode = "terminated"]
           b == [Call(a, "free_instance") EXCEPT !.instance = "freed"]
           c == [Call(b, "destroy_dllfmu") EXCEPT !.dll = FALSE]
       IN  /\ drv' = [LeaveScopes(c) EXCEPT !.json = serializeJson(c.values),
                                            !.code = 0, !.dpc = "exit"]
           /\ tempDirs' = ScopedTempDirDtor(tempDirs, drv.unpackDir)

(* ------------------------------------------------------------------ *)
(* The executor: workflow.Executor.Run                                *)
(* ------------------------------------------------------------------ *)

\* The defect buildStartValues finds in one start_from entry ("" when none).
StartFromDefect(reference, store) ==
    LET c == Cut(reference)
    IN  IF ~c.found \/ c.before = <<>> \/ c.after = <<>> THEN "must use format step.variable"
        ELSE IF c.before \notin DOMAIN store THEN "references unknown step"
        ELSE IF c.after \notin DOMAIN store[c.before] THEN "missing variable"
        ELSE IF ~encodeScalar(store[c.before][c.after]).ok THEN "encode"
        ELSE ""

\* The value a well-formed start_from entry resolves to.
StartFromValue(reference, store) ==
    LET c == Cut(reference)
    IN  encodeScalar(store[c.before][c.after]).txt

\* buildStartValues with a loop that skips a start_from entry it cannot
\* resolve instead of returning the error.
buildStartValuesSkipping(step, store) ==
    LET literals == [key \in DOMAIN step.start_values |->
                        encodeScalar(step.start_values[key]).txt]
        resolved == {t \in DOMAIN step.start_from :
                        StartFromDefect(step.start_from[t], store) = ""}
        derived  == [t \in resolved |-> StartFromValue(step.start_from[t], store)]
    IN  {[ok |-> TRUE, values |-> derived @@ literals, err |-> NoErr]}

\* The orders in which a range loop can visit the keys of a map.
RECURSIVE Orders(_)
Orders(S) ==
    IF S = {} THEN {<<>>}
    ELSE UNION {{<<x>> \o o : o \in Orders(S \ {x})} : x \in S}

\* What buildStartValues returns: values, nil or nil, err.
Built(values) == [ok |-> TRUE, values |-> values, err |-> NoErr]
NotBuilt(e) == [ok |-> FALSE, values |-> EmptyMap, err |-> e]

\* values[key] = encoded
Assign(values, key, encoded) == (key :> encoded) @@ values

\* The loop of buildStartValues over the sorted keys of start_values.
RECURSIVE EncodeLiterals(_, _, _)
EncodeLiterals(step, keys, values) ==
    IF keys = <<>> THEN Built(values)
    ELSE LET key == Head(keys)
             encoded == encodeScalar(step.start_values[key])
         IN  IF ~encoded.ok
             THEN NotBuilt([Err("start_values", step.name, "encode") EXCEPT !.target = key])
             ELSE EncodeLiterals(step, Tail(keys), Assign(values, key, encoded.txt))

\* The loop of buildStartValues over start_from, visiting the targets in
\* `order`: the first defective entry met ends the call.
RECURSIVE ResolveReferences(_, _, _, _)
ResolveReferences(step, store, order, values) ==
    IF order = <<>> THEN Built(values)
    ELSE LET target == Head(order)
             defect == StartFromDefect(step.start_from[target], store)
         IN  IF defect # ""
             THEN NotBuilt([Err("start_from", step.name, defect) EXCEPT !.target = target])
             ELSE ResolveReferences(step, store, Tail(order),
                      Assign(values, target, StartFromValue(step.start_from[target], store)))

\* buildStartValues with the literals written after the references.
buildStartValuesLiteralsLast(step, store) ==
    LET literals == EncodeLiterals(step, SortedKeys(DOMAIN step.start_values), EmptyMap)
    IN  IF ~literals.ok THEN {literals}
        ELSE {IF derived.ok THEN Built(literals.values @@ derived.values) ELSE derived :
                derived \in {ResolveReferences(step, store, order, EmptyMap) :
                                order \in Orders(DOMAIN step.start_from)}}

\* buildStartValues with both maps ranged over in one loop, in an order Go
\* leaves open.
buildStartValuesOneLoop(step, store) ==
    LET literals == EncodeLiterals(step, SortedKeys(DOMAIN step.start_values), EmptyMap)
    IN  IF ~literals.ok THEN {literals}
        ELSE UNION {IF derived.ok
                    THEN {Built(literals.values @@ derived.values),
                          Built(derived.values @@ literals.values)}
                    ELSE {derived} :
                      derived \in {ResolveReferences(step, store, order, EmptyMap) :
                                      order \in Orders(DOMAIN step.start_from)}}

\* buildStartValues: the outcomes it can have. The literals are walked in
\* sorted key order and written first; the start_from map is then ranged
\* over in an order Go leaves open.
buildStartValues(step, store) ==
    LET literals == EncodeLiterals(step, SortedKeys(DOMAIN step.start_values), EmptyMap)
    IN  IF ~literals.ok THEN {literals}
        ELSE {ResolveReferences(step, store, order, literals.values) :
                order \in Orders(DOMAIN step.start_from)}

\* return nil, err from inside the loop of Run
\* A return that hands back the partial store together with the error.
AbortWithPartialStore(e, history) ==
    /\ ret' = [done |-> TRUE, isNil |-> FALSE, store |-> results, err |-> e]
    /\ pc' = "returned"
    /\ log' = Append(history, Event("fail", idx))

AbortAfter(e, history) ==
    /\ ret' = ReturnErr(e)
    /\ pc' = "returned"
    /\ log' = Append(history, Event("fail", idx))

Abort(e) == AbortAfter(e, log)

\* The end of a loop iteration of Run: the next step, or return results, nil.
Continue(store) ==
    IF idx < Len(doc)
    THEN /\ idx' = idx + 1
         /\ pc' = "validate"
         /\ ret' = ret
    ELSE /\ idx' = idx
         /\ pc' = "returned"
         /\ ret' = ReturnStore(store)

\* Run up to the loop: read and parse the workflow, refuse one without steps.
Load ==
    /\ pc = "load"
    /\ UNCHANGED <<envVars, captured, startVals, files, drv, tempDirs, made>>
    /\ IF docStatus # "ok"
       THEN /\ Abort(Err(docStatus, <<>>, ""))
            /\ UNCHANGED <<results, idx>>
       ELSE IF Len(doc) = 0
       THEN /\ Abort(Err("does not define any steps", <<>>, ""))
            /\ UNCHANGED <<results, idx>>
       ELSE /\ results' = EmptyMap
            /\ idx' = 1
            /\ pc' = "validate"
            /\ UNCHANGED <<ret, log>>

\* The checks of Run without the one for a name that is already recorded.
StepDefectAllowingDuplicates(step, store) ==
    IF step.name = <<>> THEN "contains a step without name"
    ELSE IF step.fmu = "" THEN "is missing its fmu path"
    ELSE IF ~FileExists(step.fmu) THEN "references missing FMU"
    ELSE ""

\* The checks of Run without the os.Stat of the FMU path.
StepDefectWithoutStat(step, store) ==
    IF step.name = <<>> THEN "contains a step without name"
    ELSE IF step.name \in DOMAIN store THEN "defined multiple times"
    ELSE IF step.fmu = "" THEN "is missing its fmu path"
    ELSE ""

\* The checks Run makes on a step before it builds its start values.
StepDefect(step, store) ==
    IF step.name = <<>> THEN "contains a step without name"
    ELSE IF step.name \in DOMAIN store THEN "defined multiple times"
    ELSE IF step.fmu = "" THEN "is missing its fmu path"
    ELSE IF ~FileExists(step.fmu) THEN "references missing FMU"
    ELSE ""

Validate ==
    /\ pc = "validate"
    /\ UNCHANGED <<envVars, captured, startVals, files, drv, tempDirs, made, idx, results>>
    /\ LET defect == StepDefect(doc[idx], results)
       IN  IF defect # ""
           THEN Abort(Err(defect, doc[idx].name, ""))
           ELSE /\ pc' = "build"
                /\ UNCHANGED <<ret, log>>

\* startVals, err := e.buildStartValues(step, results)
BuildStartValues ==
    /\ pc = "build"
    /\ UNCHANGED <<envVars, captured, files, drv, tempDirs, made, idx, results>>
    /\ \E outcome \in buildStartValues(doc[idx], results) :
         IF outcome.ok
         THEN /\ startVals' = outcome.values
              /\ pc' = "call"
              /\ UNCHANGED <<ret, log>>
         ELSE /\ Abort(outcome.err)
              /\ UNCHANGED startVals

\* fmi.Run without sort.Strings(keys): the keys here in decreasing order.
CConfigUnsorted(step, values) ==
    LET keys == SortedKeys(DOMAIN values)
        n    == Len(keys)
    IN  Config(step.fmu, step.start_time, step.stop_time, step.step_size,
               [i \in 1..n |-> [name |-> keys[n + 1 - i], value |-> values[keys[n + 1 - i]]]],
               step.outputs)

\* The cads_fmu_config fmi.Run builds: the start values as assignments in
\* sorted key order, the outputs in document order.
CConfig(step, values) ==
    LET keys == SortedKeys(DOMAIN values)
    IN  Config(step.fmu, step.start_time, step.stop_time, step.step_size,
               [i \in 1..Len(keys) |-> [name |-> keys[i], value |-> values[keys[i]]]],
               step.outputs)

\* result, err := fmi.Run(cfg), up to the call of cads_run_fmu. C.malloc of
\* the assignment or output buffer may return nil, and then fmi.Run returns
\* an error without calling cads_run_fmu.
CallDriver ==
    /\ pc = "call"
    /\ UNCHANGED <<envVars, captured, startVals, files, tempDirs, made, idx, results>>
    /\ LET step    == doc[idx]
           invoked == Append(log, Event("driver", idx))
       IN  \E allocated \in Outcomes("malloc") :
             IF allocated
             THEN /\ drv' = NewDriver(CConfig(step, startVals))
                  /\ log' = invoked
                  /\ pc' = "driver"
                  /\ UNCHANGED ret
             ELSE /\ startVals # EmptyMap \/ step.outputs # <<>>
                  /\ AbortAfter(Err("failed", step.name, "fmi: failed to allocate buffer"),
                                invoked)
                  /\ UNCHANGED drv

\* Record with a loop that skips a failed step instead of returning.
RecordSkippingFailedStep ==
    /\ AtDriver("exit")
    /\ UNCHANGED <<envVars, startVals, files, tempDirs, made>>
    /\ drv' = IdleDriver
    /\ LET step == doc[idx]
       IN  IF drv.code # 0
           THEN /\ log' = Append(log, Event("driverFailed", idx))
                /\ Continue(results)
                /\ UNCHANGED <<results, captured>>
           ELSE LET stored == (step.name :> decodeJson(drv.json)) @@ results
                IN  /\ results' = stored
                    /\ captured' = (step.name :> drv.values) @@ captured
                    /\ log' = log \o <<Event("driverReturned", idx), Event("store", idx)>>
                    /\ IF step.result # ""
                       THEN /\ pc' = "write"
                            /\ UNCHANGED <<ret, idx>>
                       ELSE Continue(stored)

\* fmi.Run after cads_run_fmu returned, and Run taking its result: an error
\* aborts the run; otherwise the decoded outputs are stored under the step's
\* name, and the step is over unless it asks for a snapshot.
Record ==
    /\ AtDriver("exit")
    /\ UNCHANGED <<envVars, startVals, files, tempDirs, made>>
    /\ drv' = IdleDriver
    /\ LET step == doc[idx]
       IN  IF drv.code # 0
           THEN /\ AbortAfter(Err("failed", step.name, drv.err),
                              Append(log, Event("driverFailed", idx)))
                /\ UNCHANGED <<results, idx, captured>>
           ELSE LET stored == (step.name :> decodeJson(drv.json)) @@ results
                IN  /\ results' = stored
                    /\ captured' = (step.name :> drv.values) @@ captured
                    /\ log' = log \o <<Event("driverReturned", idx), Event("store", idx)>>
                    /\ IF step.result # ""
                       THEN /\ pc' = "write"
                            /\ UNCHANGED <<ret, idx>>
                       ELSE Continue(stored)

\* A snapshot file: the members written to it so far, and whether an
\* encoder has finished writing.
EmptyFile == [complete |-> FALSE, data |-> <<>>]

\* json.Encoder on a map: one member per key, in sorted key order.
jsonObject(result) ==
    LET keys == SortedKeys(DOMAIN result)
    IN  [i \in 1..Len(keys) |-> [key |-> keys[i], value |-> result[keys[i]]]]

\* enc.Encode(result) on an open file: the object is written at the end of
\* what the file holds.
Snapshot(file, result) == [complete |-> TRUE, data |-> file.data \o jsonObject(result)]

\* A file opened for writing without truncation: what it held stays.
OpenAppend(fs, path) ==
    IF path \in DOMAIN fs
    THEN (path :> [fs[path] EXCEPT !.complete = FALSE]) @@ fs
    ELSE (path :> EmptyFile) @@ fs

\* os.Create(path): the file is created, or truncated when it exists.
Create(fs, path) == (path :> EmptyFile) @@ fs

\* writeResultFile up to os.Create: MkdirAll, then the file is created or
\* truncated.
WriteCreate ==
    /\ pc = "write"
    /\ UNCHANGED <<envVars, captured, startVals, drv, tempDirs, made, results>>
    /\ \E dirOk \in Outcomes("MkdirAll"), fileOk \in Outcomes("Create") :
         LET outcome == IF ~dirOk THEN "mkdir failed"
                        ELSE IF ~fileOk THEN "create failed"
                        ELSE "created"
         IN  IF outcome = "created"
         THEN /\ files' = Create(files, doc[idx].result)
              /\ pc' = "encode"
              /\ UNCHANGED <<ret, log, idx>>
         ELSE /\ Abort(Err("write result", doc[idx].name, outcome))
              /\ UNCHANGED <<files, idx>>

\* writeResultFile from the encoder on, and the end of the loop iteration.
WriteEncode ==
    /\ pc = "encode"
    /\ UNCHANGED <<envVars, captured, startVals, drv, tempDirs, made, results>>
    /\ \E ok \in Outcomes("Encode") :
         IF ok
         THEN /\ files' = (doc[idx].result :>
                             Snapshot(files[doc[idx].result], results[doc[idx].name])) @@ files
              /\ log' = Append(log, Event("snapshot", idx))
              /\ Continue(results)
         ELSE /\ Abort(Err("write result", doc[idx].name, "encode failed"))
              /\ UNCHANGED <<files, idx>>

(* ------------------------------------------------------------------ *)
(* The HTTP front end: service.Server.ServeHTTP                       *)
(* ------------------------------------------------------------------ *)

\* The `workflow` member of a request object: absent, a JSON string, or a
\* JSON value of another type.
NoMember == [kind |-> "absent", text |-> ""]
StringMember(s) == [kind |-> "string", text |-> s]
NumberMember == [kind |-> "number", text |-> ""]

\* A request body as json.Decoder.Decode reads it: the first JSON value of
\* the stream ("none": the body is empty; "syntax": the bytes are no JSON
\* value), its `workflow` member when it is an object, and whether bytes
\* other than white space follow that value.
Body(first, workflow, trailing) ==
    [first |-> first, workflow |-> workflow, trailing |-> trailing]

Bodies ==
    { Body("none", NoMember, FALSE),
      Body("syntax", NoMember, FALSE),
      Body("array", NoMember, FALSE),
      Body("object", NoMember, FALSE),
      Body("object", StringMember(""), FALSE),
      Body("object", NumberMember, FALSE),
      Body("object", StringMember("w.yaml"), FALSE),
      Body("object", StringMember("w.yaml"), TRUE) }

\* json.NewDecoder(r.Body).Decode(&req): the next JSON value of the stream is
\* decoded into runRequest; what follows it in the stream is not read.
Decode(body) ==
    CASE body.first \in {"none", "syntax", "array"} -> [ok |-> FALSE, Workflow |-> ""]
      [] body.workflow.kind = "number" -> [ok |-> FALSE, Workflow |-> ""]
      [] body.workflow.kind = "absent" -> [ok |-> TRUE, Workflow |-> ""]
      [] OTHER -> [ok |-> TRUE, Workflow |-> body.workflow.text]

\* What the handler wrote: http.Error(w, text, status), or the encoded
\* runResponse with status 200.
NoReply == [status |-> 0, text |-> "", err |-> NoErr, Workflow |-> "", Results |-> EmptyMap]
ErrorReply(status, text, err) == [NoReply EXCEPT !.status = status, !.text = text, !.err = err]
runResponse(workflow, store) ==
    [NoReply EXCEPT !.status = 200, !.Workflow = workflow, !.Results = store]

NoHttp ==
    [phase |-> "none", method |-> "", path |-> "", body |-> Body("none", NoMember, FALSE),
     Workflow |-> "", invoked |-> 0, reply |-> NoReply]

Request(method, path, body) ==
    [NoHttp EXCEPT !.phase = "received", !.method = method, !.path = path, !.body = body]

\* ServeHTTP up to s.Runner.Run(req.Workflow), which is Executor.Run.
ServeHTTP ==
    /\ http.phase = "received"
    /\ pc = "idle"
    /\ UNCHANGED <<doc, docStatus, faults, prior, idx, results, startVals, ret, files, log,
                   drv, tempDirs, made, captured, other>>
    /\ LET req == Decode(http.body)
       IN  IF http.method # "POST" \/ http.path # "/run"
           THEN /\ http' = [http EXCEPT !.phase = "replied",
                                        !.reply = ErrorReply(404, "404 page not found", NoErr)]
                /\ pc' = pc
           ELSE IF ~req.ok
           THEN /\ http' = [http EXCEPT !.phase = "replied",
                                        !.reply = ErrorReply(400, "invalid JSON payload", NoErr)]
                /\ pc' = pc
           ELSE IF req.Workflow = ""
           THEN /\ http' = [http EXCEPT !.phase = "replied",
                                        !.reply = ErrorReply(400, "workflow is required", NoErr)]
                /\ pc' = pc
           ELSE /\ http' = [http EXCEPT !.phase = "running", !.Workflow = req.Workflow,
                                        !.invoked = @ + 1]
                /\ pc' = "load"

\* ServeHTTP once the runner has returned: the error as text with status
\* 500, or the runResponse. The values of a result store are finite numbers
\* and booleans, which json.Encoder always encodes.
Reply ==
    /\ http.phase = "running"
    /\ pc = "returned"
    /\ UNCHANGED <<doc, docStatus, faults, prior, pc, idx, results, startVals, ret, files,
                   log, drv, tempDirs, made, captured, other>>
    /\ http' = [http EXCEPT !.phase = "replied",
                            !.reply = IF ret.err # NoErr
                                      THEN ErrorReply(500, "", ret.err)
                                      ELSE runResponse(http.Workflow, ret.store)]

(* ------------------------------------------------------------------ *)
(* Specification                                                      *)
(* ------------------------------------------------------------------ *)

\* An earlier Run whose outcome is kept for comparison: none.
NoPrior == [done |-> FALSE, ret |-> NotReturned, files |-> EmptyMap, kept |-> FALSE]

\* The locals of an Executor.Run that a goroutine is about to make, or has
\* made so far, on a document; run tells the two invocations apart.
Parked(run, document) ==
    [run |-> run, doc |-> document, pc |-> "load", idx |-> 0, results |-> EmptyMap,
     startVals |-> EmptyMap, ret |-> NotReturned, log |-> <<>>, drv |-> IdleDriver,
     captured |-> EmptyMap]

\* No second invocation.
NoOther == Parked(0, <<>>)

\* The state of the process before Run is called.
Fresh ==
    /\ other = NoOther
    /\ idx = 0
    /\ results = EmptyMap
    /\ startVals = EmptyMap
    /\ ret = NotReturned
    /\ files = EmptyMap
    /\ log = <<>>
    /\ drv = IdleDriver
    /\ tempDirs = {}
    /\ made = 0
    /\ captured = EmptyMap
    /\ prior = NoPrior

\* The workflow file: a document, or a file that cannot be read or parsed.
Workflows ==
    /\ \/ docStatus = "ok" /\ doc \in Docs
       \/ docStatus \in {"read workflow", "parse workflow"} /\ doc = <<>>

Init ==
    /\ Workflows
    /\ pc = "load"
    /\ Fresh
    /\ faults = AnyFault
    /\ http = NoHttp

Next ==
    \/ Load
    \/ Validate
    \/ BuildStartValues
    \/ CallDriver
    \/ RunConfiguredFmu
    \/ MakeTempDir
    \/ DetectVersion
    \/ ParseXml
    \/ LoadBinaries
    \/ Instantiate
    \/ SetupExperiment
    \/ EnterInitializationMode
    \/ ApplyStartValue
    \/ ExitInitializationMode
    \/ DoStep
    \/ SelectOutputs
    \/ ReadOutput
    \/ Finish
    \/ Record
    \/ WriteCreate
    \/ WriteEncode

Spec == Init /\ [][Next]_vars

\* The service: one request to ServeHTTP, whose runner is Executor.Run.
ServerInit ==
    /\ Workflows
    /\ pc = "idle"
    /\ Fresh
    /\ faults = AnyFault
    /\ http \in {Request(method, path, body) :
                    method \in {"POST", "GET"}, path \in {"/run", "/status"}, body \in Bodies}

ServerNext ==
    \/ ServeHTTP
    \/ Next
    \/ Reply

ServerSpec == ServerInit /\ [][ServerNext]_vars

\* One-step workflows that differ in the timing overrides of the step and in
\* the default experiment of its FMU.
TimingDocs ==
    {<<[Step(A, path, <<>>, (<<"x">> :> GoFloat(Milli(1500))), EmptyMap, "a.json")
          EXCEPT !.start_time = start, !.stop_time = stop, !.step_size = step]>> :
       path \in DOMAIN ExperimentFmus,
       start \in {NoTime, Time(0), Time(2000)},
       stop \in {NoTime, Time(1000), Time(4000)},
       step \in {NoTime, Time(0), Time(-1000), Time(1500), Time(5000)}}

TimingInit ==
    /\ docStatus = "ok"
    /\ doc \in TimingDocs
    /\ pc = "load"
    /\ Fresh
    /\ faults = AnyFault
    /\ http = NoHttp

TimingSpec == TimingInit /\ [][Next]_vars

\* Workflows of one step that binds start values by literal: one or two
\* variables bound to a number or to a text of any form, or three bound to
\* numbers; p is not declared by the FMU and s is a string variable.
Texts ==
    {NumText(Milli(1500)), TrailingText(Milli(1500)), BadText("nonfinite"),
     BadText("empty"), BadText("nonnumeric")}

BindingValues == {GoInt(1)} \cup {GoString(text) : text \in Texts}

BindingKeys == {<<"b">>, <<"k">>, <<"p">>, <<"s">>, <<"x">>}

Bindings ==
    UNION {[K -> BindingValues] :
             K \in {S \in SUBSET BindingKeys : Cardinality(S) \in 1..2}} \cup
    UNION {[K -> {GoInt(1)}] : K \in {S \in SUBSET BindingKeys : Cardinality(S) = 3}}

BindingDocs ==
    {<<Step(A, path, << <<"n">>, <<"y">> >>, values, EmptyMap, "a.json")>> :
       path \in {"id2.fmu", "id3.fmu"}, values \in Bindings}

BindingInit ==
    /\ docStatus = "ok"
    /\ doc \in BindingDocs
    /\ pc = "load"
    /\ Fresh
    /\ faults = AnyFault
    /\ http = NoHttp

BindingSpec == BindingInit /\ [][Next]_vars

\* Two invocations whose result store is one map of the Executor instead of
\* a local of each Run.
SwitchSharingStore ==
    /\ prior.done
    /\ other.run # 0
    /\ other.pc # "returned"
    /\ UNCHANGED <<docStatus, faults, http, prior, files, tempDirs, made, results>>
    /\ other' = [run |-> 3 - other.run, doc |-> doc, pc |-> pc, idx |-> idx,
                 results |-> results, startVals |-> startVals, ret |-> ret,
                 log |-> log, drv |-> drv, captured |-> captured]
    /\ doc' = other.doc
    /\ pc' = other.pc
    /\ idx' = other.idx
    /\ startVals' = other.startVals
    /\ ret' = other.ret
    /\ log' = other.log
    /\ drv' = other.drv
    /\ captured' = other.captured

\* The goroutine scheduler takes the running Executor.Run off the processor
\* and resumes the other one: the locals of the two invocations change
\* places. Files and scratch directories belong to the process.
Switch ==
    /\ prior.done
    /\ other.run # 0
    /\ other.pc # "returned"
    /\ UNCHANGED <<docStatus, faults, http, prior, files, tempDirs, made>>
    /\ other' = [run |-> 3 - other.run, doc |-> doc, pc |-> pc, idx |-> idx,
                 results |-> results, startVals |-> startVals, ret |-> ret,
                 log |-> log, drv |-> drv, captured |-> captured]
    /\ doc' = other.doc
    /\ pc' = other.pc
    /\ idx' = other.idx
    /\ results' = other.results
    /\ startVals' = other.startVals
    /\ ret' = other.ret
    /\ log' = other.log
    /\ drv' = other.drv
    /\ captured' = other.captured

\* Runner.Run called a second time for the same workflow once the first call
\* has returned: what the first call returned and left on disk is remembered.
\* The snapshot files of the first call are still there, or have been
\* removed in between.
RunAgain ==
    /\ pc = "returned"
    /\ ~prior.done
    /\ UNCHANGED <<doc, docStatus, faults, http, tempDirs, made, other>>
    /\ \E kept \in BOOLEAN :
         /\ prior' = [done |-> TRUE, ret |-> ret, files |-> files, kept |-> kept]
         /\ files' = IF kept THEN files ELSE EmptyMap
    /\ pc' = "load"
    /\ idx' = 0
    /\ results' = EmptyMap
    /\ startVals' = EmptyMap
    /\ ret' = NotReturned
    /\ log' = <<>>
    /\ drv' = IdleDriver
    /\ captured' = EmptyMap

\* The calls that fail in the runs that are repeated.
FaultPlans ==
    {Faults({})} \cup
    {Faults({call}) : call \in {"create_dllfmu", "do_step", "terminate", "Encode"}}

\* Two runs on the same inputs: the same workflow file, the same FMUs, and
\* library and system calls that fail in the second run exactly when they
\* fail in the first.
RepeatInit ==
    /\ Workflows
    /\ pc = "load"
    /\ Fresh
    /\ faults \in FaultPlans
    /\ http = NoHttp

RepeatNext ==
    \/ Next
    \/ RunAgain

RepeatSpec == RepeatInit /\ [][RepeatNext]_vars

\* The workflows two concurrent requests name: a producer and its consumer,
\* a producer alone, and a consumer of a step its own workflow does not
\* have.
ConcurrentDocs ==
    {<<Step(A, "id2.fmu", << <<"n">> >>, (<<"k">> :> GoInt(7)), EmptyMap, "a.json"),
       Step(B, "id3.fmu", << <<"n">> >>, EmptyMap, (<<"k">> :> Ref(A, <<"n">>)), "b.json")>>,
     <<Step(A, "id3.fmu", << <<"n">> >>, (<<"k">> :> GoInt(5)), EmptyMap, "a.json")>>,
     <<Step(B, "id2.fmu", << <<"n">> >>, EmptyMap, (<<"k">> :> Ref(A, <<"n">>)), "")>>}

\* One Run alone on a workflow, and then two goroutines that call Run on
\* the same Executor, the first on that workflow again, with library calls
\* that fail in every run exactly when they fail in the run alone.
ConcurrentInit ==
    /\ docStatus = "ok"
    /\ doc \in ConcurrentDocs
    /\ \E document \in ConcurrentDocs : other = Parked(2, document)
    /\ pc = "load"
    /\ idx = 0
    /\ results = EmptyMap
    /\ startVals = EmptyMap
    /\ ret = NotReturned
    /\ files = EmptyMap
    /\ log = <<>>
    /\ drv = IdleDriver
    /\ tempDirs = {}
    /\ made = 0
    /\ captured = EmptyMap
    /\ prior = NoPrior
    /\ faults \in {Faults({}), Faults({"terminate"})}
    /\ http = NoHttp

ConcurrentNext ==
    \/ Next
    \/ RunAgain
    \/ Switch

ConcurrentSpec == ConcurrentInit /\ [][ConcurrentNext]_vars

(* ------------------------------------------------------------------ *)
(* Properties                                                         *)
(* ------------------------------------------------------------------ *)

Happened(ev, k, from, to) == \E i \in from..to : log[i] = Event(ev, k)

Position(ev, k) == CHOOSE i \in 1..Len(log) : log[i] = Event(ev, k)

StepNames(n) == {doc[j].name : j \in 1..n}

\* C1: Run is strictly sequential. Whenever the driver is invoked for step
\* k + 1, the driver of step k has returned successfully before, then step
\* k's outputs were stored, then (when step k sets `result`) its snapshot was
\* written, and the store and the snapshot file show it; and the first
\* failure is the last thing Run does: no driver is invoked and no snapshot
\* is written after it.
C1_StrictlySequential ==
    /\ \A i \in 1..Len(log) :
         log[i].ev = "driver" /\ log[i].k > 1 =>
           LET k == log[i].k - 1
           IN  /\ Happened("driver", k, 1, i - 1)
               /\ Happened("driverReturned", k, Position("driver", k), i - 1)
               /\ Happened("store", k, Position("driverReturned", k), i - 1)
               /\ doc[k].result # "" =>
                     Happened("snapshot", k, Position("store", k), i - 1)
    /\ pc \in {"call", "driver"} =>
         \A j \in 1..(idx - 1) :
            /\ doc[j].name \in DOMAIN results
            /\ doc[j].result # "" =>
                  /\ doc[j].result \in DOMAIN files
                  /\ files[doc[j].result].complete
    /\ \A i \in 1..Len(log) :
         log[i].ev = "fail" =>
            /\ i = Len(log)
            /\ pc = "returned"
            /\ drv.dpc = "idle"
            /\ ret.done /\ ret.err # NoErr

\* C1 witness: the driver runs for the second step of a document whose first
\* step wrote a snapshot.
C1_Witness ==
    /\ pc = "driver"
    /\ idx = 2
    /\ doc[1].result # ""
    /\ drv.dpc = "loop"

\* C2: whenever the driver returns after the FMU was instantiated, on the
\* normal path or after any failure, the instance has been terminated and
\* freed.
C2_InstanceReleased ==
    drv.dpc = "exit" /\ drv.instance # "none" => drv.instance = "freed"

C4_AllOrNothing ==
    ret.done =>
       /\ ret.isNil <=> ret.err # NoErr
       /\ ~ret.isNil => DOMAIN ret.store = StepNames(Len(doc))
       /\ ret.isNil => ret.store = EmptyMap

\* C4 witness: Run has failed at its second step, with the first step's
\* outputs in its store.
C4_Witness ==
    /\ ret.done
    /\ ret.err # NoErr
    /\ idx = 2
    /\ DOMAIN results = {doc[1].name}

\* Whether a start_from reference of step k names, before its first dot, a
\* step that precedes step k and, after it, a variable that step recorded.
Resolvable(reference, k) ==
    \E i \in 1..Len(reference) :
       /\ reference[i] = "."
       /\ \A j \in 1..(i - 1) : reference[j] # "."
       /\ \E j \in 1..(k - 1) :
             /\ doc[j].name = SubSeq(reference, 1, i - 1)
             /\ doc[j].name \in DOMAIN captured
             /\ SubSeq(reference, i + 1, Len(reference)) \in DOMAIN captured[doc[j].name]

DriverInvokedFor(k) == Happened("driver", k, 1, Len(log))

\* C5: the driver is invoked for a step only if each of its start_from
\* references names a step completed earlier in the run and a variable in
\* that step's recorded outputs; a step with any other reference (to itself,
\* to a later or unknown step, to a variable not captured) makes Run fail
\* without the driver being invoked for it.
C5_StartFromResolved ==
    \A k \in 1..Len(doc) :
       LET refs == {doc[k].start_from[t] : t \in DOMAIN doc[k].start_from}
       IN  /\ DriverInvokedFor(k) => \A r \in refs : Resolvable(r, k)
           /\ idx = k /\ (\E r \in refs : ~Resolvable(r, k)) =>
                 /\ pc \in {"validate", "build", "returned"}
                 /\ ~DriverInvokedFor(k)
                 /\ pc = "returned" => ret.isNil /\ ret.err # NoErr

\* C5 witness: Run has failed at its second step on a start_from reference to
\* a variable the first step did not capture.
C5_Witness ==
    /\ ret.done
    /\ idx = 2
    /\ ret.err.kind = "start_from"
    /\ ret.err.detail = "missing variable"
    /\ DOMAIN results = {doc[1].name}

\* C6: the result store only grows. An entry, once inserted, is never
\* changed or removed; each insertion follows the successful return of that
\* step's driver and happens once per step; and a step whose name is already
\* recorded is never inserted: Run fails at it.
C6_StoreMonotonic ==
    /\ [][\A name \in DOMAIN results :
             name \in DOMAIN results' /\ results'[name] = results[name]]_vars
    /\ [](\A k \in 1..Len(doc) :
            /\ Cardinality({i \in 1..Len(log) : log[i] = Event("store", k)}) <= 1
            /\ Happened("store", k, 1, Len(log)) =>
                  /\ Happened("driverReturned", k, 1, Position("store", k))
                  /\ doc[k].name \in DOMAIN results
            /\ (\E j \in 1..(k - 1) : doc[j].name = doc[k].name) =>
                  /\ ~Happened("store", k, 1, Len(log))
                  /\ idx = k /\ pc = "returned" => ret.isNil /\ ret.err # NoErr)
    /\ [](Cardinality(DOMAIN results) =
            Cardinality({i \in 1..Len(log) : log[i].ev = "store"}))

\* C6 witness: Run has failed at a second step that bears the name of the
\* first, whose entry is in the store.
C6_Witness ==
    /\ ret.done
    /\ idx = 2
    /\ ret.err.kind = "defined multiple times"
    /\ doc[1].name = doc[2].name
    /\ doc[1].name \in DOMAIN results

\* A defect of step k that Run must find before it does anything for it.
Defective(k) ==
    \/ doc[k].name = <<>>
    \/ \E j \in 1..(k - 1) : doc[j].name = doc[k].name
    \/ doc[k].fmu = ""
    \/ doc[k].fmu \notin DOMAIN Fmus

\* C7: a document without steps fails before any driver invocation; a step
\* with an empty name, a name an earlier step has, an empty fmu or an fmu
\* path that does not exist makes Run fail before the driver is invoked and
\* before a snapshot is written for it.
C7_StepValidated ==
    /\ docStatus = "ok" /\ Len(doc) = 0 =>
          /\ log \in {<<>>, <<Event("fail", 0)>>}
          /\ pc \in {"load", "returned"}
          /\ pc = "returned" => ret.isNil /\ ret.err # NoErr
    /\ \A k \in 1..Len(doc) :
          Defective(k) =>
             /\ ~DriverInvokedFor(k)
             /\ ~Happened("snapshot", k, 1, Len(log))
             /\ idx = k => pc \in {"validate", "returned"}
             /\ idx = k /\ pc = "returned" => ret.isNil /\ ret.err # NoErr

\* C7 witness: Run has failed at a second step whose FMU file does not exist.
C7_Witness ==
    /\ ret.done
    /\ idx = 2
    /\ ret.err.kind = "references missing FMU"
    /\ log[Len(log)] = Event("fail", 2)

\* C8: with start_time and stop_time overrides such that stop < start the
\* driver fails: it never reaches its step loop, reads no output and does
\* not return successfully.
C8_InvalidTimingRejected ==
    /\ drv.cfg.startTime.has
    /\ drv.cfg.stopTime.has
    /\ drv.cfg.stopTime.v < drv.cfg.startTime.v
    => /\ drv.dpc \notin {"loop", "select", "read"}
       /\ drv.dpc = "exit" => drv.code # 0

DeclaresOutputs(fmu) ==
    \E v \in DOMAIN fmu.vars : fmu.vars[v].causality \in {"output", "calculatedParameter"}

\* C9: when the step lists no outputs and the FMU declares no output, no
\* calculated parameter and no variable named time, a driver that got as far
\* as reading outputs returns successfully, with exactly {time: stop}.
C9_TimeFallback ==
    LET fmu == Fmus[drv.cfg.fmuPath]
    IN  /\ drv.dpc = "exit"
        /\ drv.outputs # <<>>
        /\ drv.cfg.outputs = <<>>
        /\ ~DeclaresOutputs(fmu)
        /\ <<"t", "i", "m", "e">> \notin DOMAIN fmu.vars
        => /\ drv.code = 0
           /\ drv.json = (<<"t", "i", "m", "e">> :> JsonNumber(Milli(drv.timings.stop)))

\* C10: an integer an upstream step captured from an integer output reaches
\* the typed setter of the downstream input bound to it by start_from
\* unchanged, as that integer (integer input) or as the real number equal to
\* it (real input).
C10_IntegerRoundTrip ==
    pc = "driver" =>
       \A i \in 1..Len(drv.sets) :
          LET set == drv.sets[i]
              from == doc[idx].start_from
          IN  set.name \in DOMAIN from /\ set.base \in {"int", "real"} =>
                 LET c == Cut(from[set.name])
                     upstream == captured[c.before][c.after]
                 IN  upstream.type = "Integer" => set.val = IntNum(upstream.intVal)

\* A body that is one JSON value and nothing else.
ValidJson(body) == body.first \in {"object", "array"} /\ ~body.trailing

\* C11: every request is answered with exactly one of four outcomes, decided
\* in this order: 404 without the runner being invoked when the method is not
\* POST or the path is not /run; else 400 without the runner being invoked
\* when the body is empty or is not valid JSON, or its workflow member is
\* missing or empty; else 500 carrying the runner's error; else 200 with the
\* requested workflow path and the result store.
C11_FourOutcomes ==
    http.phase = "replied" =>
       LET reply == http.reply
           body  == http.body
       IN  IF http.method # "POST" \/ http.path # "/run"
           THEN reply.status = 404 /\ http.invoked = 0
           ELSE IF \/ ~ValidJson(body)
                   \/ body.first # "object"
                   \/ body.workflow.kind # "string"
                   \/ body.workflow.text = ""
           THEN reply.status = 400 /\ http.invoked = 0
           ELSE IF ret.err # NoErr
           THEN reply.status = 500 /\ reply.err = ret.err /\ http.invoked = 1
           ELSE /\ reply.status = 200
                /\ reply.Workflow = body.workflow.text
                /\ reply.Results = ret.store
                /\ http.invoked = 1

\* C12: two runs of Run on identical inputs return the same (a store equal
\* to the first run's, or no store both times) and leave snapshot files with
\* equal content, whatever orders the range loops over start_values and
\* start_from take in either run.
C12_Deterministic ==
    prior.done /\ ~prior.kept /\ pc = "returned" =>
       /\ ret.isNil = prior.ret.isNil
       /\ ret.store = prior.ret.store
       /\ files = prior.files

\* C12 witness: both runs completed two steps, the second of which takes two
\* start values from the first and has a literal for one of them.
C12_Witness ==
    /\ prior.done /\ ~prior.kept
    /\ pc = "returned"
    /\ ~ret.isNil
    /\ Len(doc) = 2
    /\ Cardinality(DOMAIN doc[2].start_from) = 2
    /\ DOMAIN doc[2].start_from \cap DOMAIN doc[2].start_values # {}
    /\ files # EmptyMap

\* C13: Run surfaces exactly one error per failed run and none otherwise,
\* and an error that arises at a step with a non-empty name (a duplicate
\* name, a missing fmu field or file, invalid start values or start_from, a
\* driver failure, a snapshot write failure) carries that step's name.
C13_ErrorNamesStep ==
    LET failures == {i \in 1..Len(log) : log[i].ev = "fail"}
    IN  /\ Cardinality(failures) <= 1
        /\ ret.done => (ret.err # NoErr <=> Cardinality(failures) = 1)
        /\ ~ret.done => failures = {}
        /\ ret.done /\ ret.err # NoErr /\ idx >= 1 /\ doc[idx].name # <<>> =>
              ret.err.step = doc[idx].name

\* C13 witness: Run has failed at its second step on a snapshot it could
\* not write, after the first step completed.
C13_Witness ==
    /\ ret.done
    /\ idx = 2
    /\ ret.err.kind = "write result"
    /\ ret.err.step = doc[2].name
    /\ doc[2].name # <<>>
    /\ DOMAIN results = {doc[1].name, doc[2].name}

\* C14: writeResultFile is idempotent. Once a step's snapshot is written, the
\* file holds exactly one JSON object with the keys of the step's output map
\* in lexicographic order, whether or not the file existed before; and
\* when an earlier run wrote the same snapshot, the file is as that run left
\* it.
C14_SnapshotIdempotent ==
    \A k \in 1..Len(doc) :
       Happened("snapshot", k, 1, Len(log)) =>
          LET path == doc[k].result
              data == files[path].data
              map  == results[doc[k].name]
          IN  /\ files[path].complete
              /\ Len(data) = Cardinality(DOMAIN map)
              /\ \A i \in 1..Len(data) :
                    /\ data[i].key \in DOMAIN map
                    /\ data[i].value = map[data[i].key]
                    /\ i < Len(data) => StrLess(data[i].key, data[i + 1].key)
              /\ prior.done /\ path \in DOMAIN prior.files /\ prior.files[path].complete =>
                    files[path] = prior.files[path]

\* C14 witness: the second run has written, over the file the first run
\* left, a snapshot with two keys.
C14_Witness ==
    /\ prior.done /\ prior.kept
    /\ \E k \in 1..Len(doc) :
          /\ Happened("snapshot", k, 1, Len(log))
          /\ doc[k].result \in DOMAIN prior.files
          /\ prior.files[doc[k].result].complete
          /\ Len(files[doc[k].result].data) = 2

\* The place of a library call in the life cycle of an FMU (0: not part of it).
Phase(call) ==
    CASE call = "parse_xml" -> 1
      [] call = "get_fmu_kind" -> 2
      [] call = "create_dllfmu" -> 3
      [] call = "instantiate" -> 4
      [] call = "setup_experiment" -> 5
      [] call = "enter_initialization_mode" -> 6
      [] call \in {"set_real", "set_int", "set_bool"} -> 7
      [] call = "exit_initialization_mode" -> 8
      [] call = "do_step" -> 9
      [] call \in {"get_real", "get_int", "get_bool"} -> 10
      [] call = "terminate" -> 11
      [] call = "free_instance" -> 12
      [] call = "destroy_dllfmu" -> 13
      [] OTHER -> 0

\* C15: the library calls of a driver run form a prefix of: parse, kind
\* check, load binaries, instantiate, setup_experiment (FMI 2 only),
\* enter_initialization_mode, setters, exit_initialization_mode, do_steps,
\* getters, terminate, free_instance, destroy_dllfmu. Only setters, do_steps
\* and getters repeat, only setters and do_steps may be absent; setters are
\* called in initialization mode only, and do_step only after
\* exit_initialization_mode succeeded.
C15_CallOrder ==
    LET calls == SelectSeq(drv.calls, LAMBDA c : Phase(c) > 0)
        optional == {7, 9} \cup (IF drv.version = "3.0" THEN {5} ELSE {})
    IN  /\ calls # <<>> => calls[1] = "parse_xml"
        /\ \A i \in 1..(Len(calls) - 1) :
              LET a == Phase(calls[i])
                  b == Phase(calls[i + 1])
              IN  /\ a <= b
                  /\ a = b => a \in {7, 9, 10}
                  /\ \A p \in (a + 1)..(b - 1) : p \in optional
        /\ \A i \in 1..Len(calls) :
              /\ optional = {7, 9} \/ calls[i] # "setup_experiment"
              /\ Phase(calls[i]) = 7 /\ i = Len(calls) => drv.mode = "initialization"
              /\ Phase(calls[i]) = 9 => drv.mode \in {"step", "terminated"}
        /\ drv.dpc \in {"instantiate", "setup", "enterInit"} => drv.sets = <<>>
        /\ drv.dpc = "loop" => drv.mode = "step"

\* C15 witness: an FMI 3 driver run has returned successfully after a setter
\* call and two do_step calls.
C15_Witness ==
    /\ drv.dpc = "exit"
    /\ drv.code = 0
    /\ drv.version = "3.0"
    /\ Len(drv.sets) = 1
    /\ Len(SelectSeq(drv.calls, LAMBDA c : c = "do_step")) = 2

\* A reference that is not exactly one dot-separated pair with two non-empty
\* sides.
Malformed(reference) ==
    LET dots == {i \in 1..Len(reference) : reference[i] = "."}
    IN  \/ Cardinality(dots) # 1
        \/ 1 \in dots
        \/ Len(reference) \in dots

\* C16: a step with a start_from reference that has no dot, an empty side or
\* more than one dot is rejected whatever the result store holds: the
\* driver is never invoked for it and Run returns an error at it.
C16_MalformedRejected ==
    \A k \in 1..Len(doc) :
       (\E target \in DOMAIN doc[k].start_from : Malformed(doc[k].start_from[target])) =>
          /\ ~DriverInvokedFor(k)
          /\ idx = k => pc \in {"validate", "build", "returned"}
          /\ idx = k /\ pc = "returned" => ret.isNil /\ ret.err # NoErr

\* C17: the bindings handed to the driver for a step are one per target
\* named in start_values or start_from; a target named in start_from is
\* bound to the encoded value of the referenced upstream output, also when
\* start_values has a literal for it; a target named in start_values only
\* is bound to its encoded literal.
C17_ReferenceWins ==
    pc = "driver" =>
       LET step  == doc[idx]
           bound == drv.cfg.startValues
           Handed(target) == {bound[i].value : i \in {j \in 1..Len(bound) :
                                                        bound[j].name = target}}
       IN  /\ {bound[i].name : i \in 1..Len(bound)} =
                 DOMAIN step.start_values \cup DOMAIN step.start_from
           /\ Len(bound) = Cardinality(DOMAIN step.start_values \cup DOMAIN step.start_from)
           /\ \A target \in DOMAIN step.start_from :
                 LET c == Cut(step.start_from[target])
                 IN  Handed(target) = {encodeScalar(results[c.before][c.after]).txt}
           /\ \A target \in DOMAIN step.start_values \ DOMAIN step.start_from :
                 Handed(target) = {encodeScalar(step.start_values[target]).txt}

\* C17 witness: the driver has set k, for which the step has both the
\* literal 5 and a reference, to the upstream value 7, and b from its literal.
C17_Witness ==
    /\ pc = "driver"
    /\ <<"k">> \in DOMAIN doc[idx].start_values \cap DOMAIN doc[idx].start_from
    /\ doc[idx].start_values[<<"k">>] = GoInt(5)
    /\ Len(drv.sets) = 3
    /\ \E i \in 1..3 : drv.sets[i].name = <<"k">> /\ drv.sets[i].val = IntNum(7)
    /\ \E i \in 1..3 : drv.sets[i].name = <<"b">> /\ drv.sets[i].val = IntNum(1)

\* C18: a step whose start_values and start_from name the same target is a
\* configuration error: Run fails at it before the driver is invoked for it.
C18_ClashRejected ==
    \A k \in 1..Len(doc) :
       DOMAIN doc[k].start_values \cap DOMAIN doc[k].start_from # {} =>
          /\ ~DriverInvokedFor(k)
          /\ idx = k => pc \in {"validate", "build", "returned"}
          /\ idx = k /\ pc = "returned" => ret.isNil /\ ret.err # NoErr

\* C19: the timings the driver uses are the reference rules applied to the
\* overrides and the default experiment: start = override, else default,
\* else 0; stop = override, else default, else start + 1; step = override,
\* else default, else max(1e-3, stop - start); a step that is not positive is
\* replaced by stop - start when that is positive, else by 1. The step used
\* is positive, and the FMI 2 and FMI 3 resolvers agree.
C19_TimingRules ==
    pc = "driver" /\ drv.instance # "none" =>
       LET cfg   == drv.cfg
           fmu   == Fmus[cfg.fmuPath]
           start == CASE cfg.startTime.has -> cfg.startTime.v
                      [] ~cfg.startTime.has /\ fmu.start.has -> fmu.start.v
                      [] OTHER -> 0
           stop  == CASE cfg.stopTime.has -> cfg.stopTime.v
                      [] ~cfg.stopTime.has /\ fmu.stop.has -> fmu.stop.v
                      [] OTHER -> start + 1000
           first == CASE cfg.stepSize.has -> cfg.stepSize.v
                      [] ~cfg.stepSize.has /\ fmu.step.has -> fmu.step.v
                      [] OTHER -> IF stop - start > 1 THEN stop - start ELSE 1
           step  == CASE first > 0 -> first
                      [] first <= 0 /\ stop - start > 0 -> stop - start
                      [] OTHER -> 1000
       IN  /\ drv.timings = [start |-> start, stop |-> stop, step |-> step]
           /\ drv.timings.step > 0
           /\ deriveTimingsFmi2(fmu, cfg) = deriveTimingsFmi3(fmu, cfg)

\* C19 witness: an FMI 3 driver is in its step loop with a step override of
\* 0, no stop time from either side and the start time of the FMU's default
\* experiment: start 1, stop 2, step 1.
C19_Witness ==
    /\ pc = "driver"
    /\ drv.dpc = "loop"
    /\ drv.version = "3.0"
    /\ drv.cfg.stepSize = Time(0)
    /\ ~drv.cfg.stopTime.has /\ ~drv.cfg.startTime.has
    /\ ~Fmus[drv.cfg.fmuPath].stop.has
    /\ drv.timings = [start |-> 1000, stop |-> 2000, step |-> 1000]

\* The sum of the sizes of the first n do_step calls.
RECURSIVE Advanced(_, _)
Advanced(steps, n) == IF n = 0 THEN 0 ELSE Advanced(steps, n - 1) + steps[n].size

\* C20: in every state of the step loop start <= current <= stop; the k-th
\* do_step is called at start plus the sizes of the calls before it, with
\* size min(step, stop - current), which is positive, and never advances
\* past stop; a step larger than the horizon gives one call of size
\* stop - start.
C20_StepLoop ==
    pc = "driver" /\ drv.dpc = "loop" =>
       LET t     == drv.timings
           steps == drv.steps
       IN  /\ t.start <= drv.current
           /\ drv.current <= t.stop
           /\ drv.current = t.start + Advanced(steps, Len(steps))
           /\ \A k \in 1..Len(steps) :
                 /\ steps[k].at = t.start + Advanced(steps, k - 1)
                 /\ steps[k].size = Min(t.step, t.stop - steps[k].at)
                 /\ steps[k].size > 0
                 /\ steps[k].at + steps[k].size <= t.stop
           /\ t.step >= t.stop - t.start /\ steps # <<>> =>
                 /\ Len(steps) = 1
                 /\ steps[1].size = t.stop - t.start

\* The smallest integer that is at least a / b, for b > 0.
Ceil(a, b) == -((-a) \div b)

\* C21: when every do_step returns OK and no terminate flag is raised, the
\* step loop ends after exactly ceil((stop - start) / step) do_step calls
\* with current = stop: no call when start = stop, one call from start to
\* stop when step >= stop - start > 0.
C21_LoopCount ==
    /\ pc = "driver"
    /\ drv.dpc = "read"
    /\ \A k \in 1..Len(drv.steps) : drv.steps[k].ok /\ ~drv.steps[k].terminate
    => LET t == drv.timings
       IN  /\ Len(drv.steps) = Ceil(t.stop - t.start, t.step)
           /\ drv.current = t.stop
           /\ t.start = t.stop => drv.steps = <<>>
           /\ t.step >= t.stop - t.start /\ t.stop - t.start > 0 =>
                 /\ Len(drv.steps) = 1
                 /\ drv.steps[1].at = t.start
                 /\ drv.steps[1].size = t.stop - t.start

C23_StepFailureAborts ==
    /\ \A k \in 1..Len(drv.steps) :
          ~drv.steps[k].ok =>
             /\ k = Len(drv.steps)
             /\ drv.dpc = "exit"
             /\ drv.code = 1
             /\ drv.err = "do_step failed"
             /\ drv.values = EmptyMap
             /\ \A i \in 1..Len(drv.calls) :
                   drv.calls[i] \notin {"get_real", "get_int", "get_bool", "terminate"}
    /\ ret.done /\ ret.err.detail = "do_step failed" =>
          /\ ret.isNil
          /\ ret.err.kind = "failed"
          /\ ret.err.step = doc[idx].name
          /\ doc[idx].name \notin DOMAIN results
          /\ ~Happened("store", idx, 1, Len(log))
          /\ ~Happened("snapshot", idx, 1, Len(log))
          /\ log[Len(log)] = Event("fail", idx)

\* C23 witness: Run has failed at its second step, whose second do_step was
\* not OK.
C23_Witness ==
    /\ ret.done
    /\ idx = 2
    /\ ret.err.detail = "do_step failed"
    /\ DOMAIN results = {doc[1].name}
    /\ Len(log) > 2
    /\ log[Len(log) - 1] = Event("driverFailed", 2)

Setters == {"set_real", "set_int", "set_bool"}

\* The first of the sorted keys that the FMU does not declare (0: none).
FirstUndeclared(keys, fmu) ==
    IF \E i \in 1..Len(keys) : keys[i] \notin DOMAIN fmu.vars
    THEN CHOOSE i \in 1..Len(keys) :
            /\ keys[i] \notin DOMAIN fmu.vars
            /\ \A j \in 1..(i - 1) : keys[j] \in DOMAIN fmu.vars
    ELSE 0

C25_OnlyNumbersSet ==
    pc = "driver" /\ drv.dpc # "idle" =>
       /\ \A i \in 1..Len(drv.sets) :
             /\ drv.sets[i].name = drv.cfg.startValues[i].name
             /\ drv.cfg.startValues[i].value.form = "num"
       /\ drv.dpc = "exit" /\ drv.code = 0 =>
             \A i \in 1..Len(drv.cfg.startValues) :
                drv.cfg.startValues[i].value.form = "num"

\* The binding the driver has failed on, when it has failed on one: every
\* binding before it was set and the instance is in initialization mode
\* (0: the life cycle did not end at a binding).
FailedBinding ==
    IF /\ drv.dpc = "exit"
       /\ drv.code = 1
       /\ drv.mode = "initialization"
       /\ \A i \in 1..Len(drv.sets) : drv.sets[i].ok
       /\ Len(drv.sets) < Len(drv.cfg.startValues)
    THEN Len(drv.sets) + 1
    ELSE 0

\* C26: a binding to a declared variable whose base type is none of real,
\* integer and boolean fails with the unsupported-variable-type error and
\* calls no setter, whatever its text is.
C26_UnsupportedTypeError ==
    pc = "driver" /\ drv.dpc # "idle" =>
       LET fmu == Fmus[drv.cfg.fmuPath]
       IN  /\ \A i \in 1..Len(drv.sets) : drv.sets[i].base \in {"real", "int", "bool"}
           /\ FailedBinding > 0 =>
                 LET name == drv.cfg.startValues[FailedBinding].name
                 IN  name \in DOMAIN fmu.vars =>
                        (fmu.vars[name].base \notin {"real", "int", "bool"}
                           => drv.err = "Unsupported base type")

\* C27: whenever another process reads a snapshot file, it finds a complete
\* JSON object: in every state, every snapshot file on disk is complete.
C27_NoTornSnapshot ==
    \A path \in DOMAIN files : files[path].complete

\* The start_from entries of step k that cannot be resolved against a store.
DefectiveEntries(k, store) ==
    {target \in DOMAIN doc[k].start_from :
        StartFromDefect(doc[k].start_from[target], store) # ""}

\* C29: when a step has two or more defective start_from entries, the error
\* Run returns is the same in every run on the same inputs, whatever order
\* the range loop over start_from takes.
C29_SameError ==
    /\ prior.done
    /\ pc = "returned"
    /\ ret.err.kind = "start_from"
    /\ Cardinality(DefectiveEntries(idx, results)) >= 2
    => ret.err = prior.ret.err

\* C30: every value a successful life cycle returns was read by a getter
\* that reported OK, called after the last do_step and before terminate;
\* a life cycle in which a getter reported a status other than OK fails.
C30_ValuesFromOkGetters ==
    pc = "driver" /\ drv.dpc = "exit" =>
       /\ drv.code = 0 =>
             \A name \in DOMAIN drv.json :
                \E i \in 1..Len(drv.reads) :
                   /\ drv.reads[i].name = name
                   /\ drv.reads[i].ok
                   /\ drv.reads[i].steps = Len(drv.steps)
                   /\ drv.reads[i].live
       /\ (\E i \in 1..Len(drv.reads) : ~drv.reads[i].ok) => drv.code = 1

\* The locals of the invocation that is running, as those of the other one.
Running ==
    [run |-> 3 - other.run, doc |-> doc, pc |-> pc, idx |-> idx, results |-> results,
     startVals |-> startVals, ret |-> ret, log |-> log, drv |-> drv,
     captured |-> captured]

Invocations == {Running, other}

\* Whether the driver of an invocation holds a scratch directory.
HoldsScratch(c) ==
    c.pc = "driver" /\ c.drv.unpackDir # 0 /\ c.drv.dpc \notin {"idle", "exit"}

\* C28: in every interleaving of two Executor.Run invocations on one
\* Executor, the store of each holds only what its own driver calls returned
\* for its own steps, its start_from values are those of its own store, the
\* scratch directories the two hold at a time are distinct and exist, and an
\* invocation returns the store that Run returns on its workflow alone.
C28_RunsIsolated ==
    prior.done /\ other.run # 0 =>
       /\ \A c \in Invocations :
             /\ DOMAIN c.results \subseteq {c.doc[k].name : k \in 1..c.idx}
             /\ \A name \in DOMAIN c.results :
                   c.results[name] = decodeJson(serializeJson(c.captured[name]))
             /\ c.pc \in {"call", "driver"} =>
                   \A target \in DOMAIN c.doc[c.idx].start_from :
                      /\ StartFromDefect(c.doc[c.idx].start_from[target], c.results) = ""
                      /\ c.startVals[target] =
                            StartFromValue(c.doc[c.idx].start_from[target], c.results)
             /\ HoldsScratch(c) => c.drv.unpackDir \in tempDirs
             /\ c.pc = "returned" /\ (\E d \in Invocations : d.run = 1 /\ d.doc = c.doc) =>
                   /\ c.ret.isNil = prior.ret.isNil
                   /\ c.ret.store = prior.ret.store
       /\ HoldsScratch(Running) /\ HoldsScratch(other) =>
             Running.drv.unpackDir # other.drv.unpackDir

\* C28 witness: both invocations are inside the driver at once, on different
\* workflows and each with its own scratch directory, one of them for a step
\* whose start value it took from its own store.
C28_Witness ==
    /\ prior.done
    /\ HoldsScratch(Running)
    /\ HoldsScratch(other)
    /\ other.doc # doc
    /\ doc[idx].start_from # EmptyMap
    /\ startVals = (<<"k">> :> NumText(IntNum(7)))

====
